---- MODULE Spec2Model ----
(***************************************************************************)
(* Model of the Bedrock instrumentation                                    *)
(* (opentelemetry/instrumentation/bedrock/__init__.py): the wrapper put    *)
(* around botocore's ClientCreator.create_client, the tracing wrapper put  *)
(* around a bedrock-runtime client's invoke_model, and the attribute       *)
(* helpers they call.                                                      *)
(***************************************************************************)
EXTENDS Integers, Sequences, FiniteSets, TLC

\* ------------------------------------------------------------------ bounds
MaxCalls == 2
MaxClients == 2
MaxWrappers == 2

\* ----------------------------------------------------------- Python values
PyNone == [ty |-> "null"]
Num(n) == [ty |-> "num", n |-> n]
Str(s) == [ty |-> "str", s |-> s]
Bool(b) == [ty |-> "bool", b |-> b]
List(items) == [ty |-> "list", items |-> items]
Dict(d) == [ty |-> "dict", d |-> d]
\* a str kept as its characters, for the places that iterate over it
Chars(cs) == [ty |-> "chars", cs |-> cs]
\* a JSON text, kept as its sequence of tokens
Text(toks) == [ty |-> "text", toks |-> toks]

\* Python truthiness of a value
Truthy(v) ==
    CASE v.ty = "null" -> FALSE
      [] v.ty = "bool" -> v.b
      [] v.ty = "num" -> v.n # 0
      [] v.ty = "str" -> v.s # ""
      [] v.ty = "chars" -> v.cs # <<>>
      [] v.ty = "list" -> v.items # <<>>
      [] v.ty = "dict" -> DOMAIN v.d # {}
      [] OTHER -> TRUE

\* dict: a function from the keys present to their values
EmptyDict == <<>>
Put(d, k, v) == [x \in DOMAIN d \cup {k} |-> IF x = k THEN v ELSE d[x]]
\* dict.get(key): None for a missing key
Get(d, k) == IF k \in DOMAIN d THEN d[k] ELSE PyNone

\* ----------------------------------------------------------------- results
\* what a call hands to its caller: a response, or a raised error
NoRet == [kind |-> "none", err |-> "", origin |-> ""]
Response == [kind |-> "response", err |-> "", origin |-> ""]
Raised(e, o) == [kind |-> "error", err |-> e, origin |-> o]
\* an error raised by the instrumentation's own code
Raise(e) == Raised(e, "instrumentation")

\* ------------------------------------------------------------------- JSON
LB == [t |-> "{"]
RB == [t |-> "}"]
Mem(k, v) == [t |-> "member", k |-> k, v |-> v]

RECURSIVE BuildDict(_)
BuildDict(members) ==
    IF members = <<>> THEN EmptyDict
    ELSE LET last == members[Len(members)]
         IN Put(BuildDict(SubSeq(members, 1, Len(members) - 1)), last.k, last.v)

WellFormed(toks) ==
    /\ Len(toks) >= 2
    /\ toks[1] = LB
    /\ toks[Len(toks)] = RB
    /\ \A i \in 2..(Len(toks) - 1) : toks[i].t = "member"

\* json.loads(s): the decoded object, or the error it raises
JsonLoads(s) ==
    IF s.ty # "text" THEN [err |-> "TypeError", val |-> PyNone]
    ELSE IF ~WellFormed(s.toks) THEN [err |-> "JSONDecodeError", val |-> PyNone]
    ELSE [err |-> "", val |-> Dict(BuildDict(SubSeq(s.toks, 2, Len(s.toks) - 1)))]

\* ------------------------------------------------- semantic-convention names
LLM_VENDOR == "llm.vendor"
LLM_REQUEST_MODEL == "llm.request.model"
LLM_REQUEST_TYPE == "llm.request.type"
LLM_TOP_P == "llm.top_p"
LLM_TEMPERATURE == "llm.temperature"
LLM_REQUEST_MAX_TOKENS == "llm.request.max_tokens"
LLM_PROMPTS == "llm.prompts"
LLM_COMPLETIONS == "llm.completions"
COMPLETION == Str("completion")

\* ------------------------------------------------------ should_send_prompts
\* str.lower() on the values the environment variable takes here
Lower(s) ==
    CASE s = "TRUE" -> "true"
      [] s = "True" -> "true"
      [] s = "FALSE" -> "false"
      [] OTHER -> s

\* Python's `a or b`
PyOr(a, b) == IF Truthy(a) THEN a ELSE b

\* env: os.getenv("TRACELOOP_TRACE_CONTENT"); ctx: the context value
\* "override_enable_content_tracing".  The value of the `or` expression.
should_send_prompts(env, ctx) ==
    IF Lower(PyOr(env, Str("true")).s) = "true" THEN Bool(TRUE) ELSE ctx

\* ------------------------------------------------------ _set_span_attribute
IsEmptyStr(v) == \/ (v.ty = "str" /\ v.s = "")
                 \/ (v.ty = "chars" /\ v.cs = <<>>)

\* attrs: the span's attributes; the result is the attributes afterwards
_set_span_attribute(attrs, name, value) ==
    IF value # PyNone
    THEN IF ~IsEmptyStr(value) THEN Put(attrs, name, value) ELSE attrs
    ELSE attrs

\* ------------------------------------------------- per-vendor request tables
_set_cohere_span_attributes(attrs, request_body) ==
    LET a1 == _set_span_attribute(attrs, LLM_REQUEST_TYPE, COMPLETION)
        a2 == _set_span_attribute(a1, LLM_TOP_P, Get(request_body, "p"))
        a3 == _set_span_attribute(a2, LLM_TEMPERATURE, Get(request_body, "temperature"))
    IN _set_span_attribute(a3, LLM_REQUEST_MAX_TOKENS, Get(request_body, "max_tokens"))

_set_anthropic_span_attributes(attrs, request_body) ==
    LET a1 == _set_span_attribute(attrs, LLM_REQUEST_TYPE, COMPLETION)
        a2 == _set_span_attribute(a1, LLM_TOP_P, Get(request_body, "top_p"))
        a3 == _set_span_attribute(a2, LLM_TEMPERATURE, Get(request_body, "temperature"))
    IN _set_span_attribute(a3, LLM_REQUEST_MAX_TOKENS, Get(request_body, "max_tokens_to_sample"))

_set_ai21_span_attributes(attrs, request_body) ==
    LET a1 == _set_span_attribute(attrs, LLM_REQUEST_TYPE, COMPLETION)
        a2 == _set_span_attribute(a1, LLM_TOP_P, Get(request_body, "topP"))
        a3 == _set_span_attribute(a2, LLM_TEMPERATURE, Get(request_body, "temperature"))
    IN _set_span_attribute(a3, LLM_REQUEST_MAX_TOKENS, Get(request_body, "maxTokens"))

_set_llama_span_attributes(attrs, request_body) ==
    LET a1 == _set_span_attribute(attrs, LLM_REQUEST_TYPE, COMPLETION)
        a2 == _set_span_attribute(a1, LLM_TOP_P, Get(request_body, "top_p"))
        a3 == _set_span_attribute(a2, LLM_TEMPERATURE, Get(request_body, "temperature"))
    IN _set_span_attribute(a3, LLM_REQUEST_MAX_TOKENS, Get(request_body, "max_gen_len"))

\* ---------------------------------------------------------------- _get_body
\* the loop with `buffer = chunk` in both branches
RECURSIVE ReassembleKeepLast(_, _)
ReassembleKeepLast(chunks, buffer) ==
    IF chunks = <<>> THEN buffer
    ELSE ReassembleKeepLast(Tail(chunks), Text(Head(chunks)))

\* the loop over response.get('body').iter_chunks(): buffer after the chunks
RECURSIVE Reassemble(_, _)
Reassemble(chunks, buffer) ==
    IF chunks = <<>> THEN buffer
    ELSE Reassemble(Tail(chunks),
                    IF buffer = PyNone THEN Text(Head(chunks))
                    ELSE Text(buffer.toks \o Head(chunks)))

\* strm: the chunks the body stream still holds.  The stream is a one-pass
\* iterator: whatever the loop has read is gone from it.
_get_body(strm, content_type) ==
    LET buffer == Reassemble(strm, PyNone)
    IN IF content_type = Str("application/json")
       THEN [err |-> JsonLoads(buffer).err, val |-> JsonLoads(buffer).val, stream |-> <<>>]
       ELSE [err |-> "", val |-> PyNone, stream |-> <<>>]

\* ------------------------------------------------------ with_instrumentation
\* the names Python can resolve inside with_instrumentation: its locals, the
\* closure of _instrumented_model_invoke, and the module's globals
NamesInScope ==
    {"args", "kwargs", "span", "response", "request_body", "response_body",
     "vendor", "model", "i", "generation", "fn", "tracer",
     "wraps", "tee", "json", "logging", "os", "Collection",
     "wrap_function_wrapper", "context_api", "get_tracer", "SpanKind",
     "Status", "StatusCode", "BaseInstrumentor", "_SUPPRESS_INSTRUMENTATION_KEY",
     "unwrap", "SpanAttributes", "LLMRequestTypeValues", "__version__",
     "StreamingBody", "logger", "_instruments", "WRAPPED_METHODS",
     "should_send_prompts", "_set_span_attribute", "_with_tracer_wrapper",
     "_wrap", "_instrumented_model_invoke", "_get_body",
     "_set_cohere_span_attributes", "_set_anthropic_span_attributes",
     "_set_ai21_span_attributes", "_set_llama_span_attributes",
     "BedrockInstrumentor"}

\* `span.is_recording() and modelId`: `and` evaluates its right operand only
\* when the left one is true, and evaluating a name that is not in scope
\* raises NameError
RecordingAndModelId(recording) ==
    IF ~recording THEN [err |-> "", taken |-> FALSE]
    ELSE IF "modelId" \notin NamesInScope THEN [err |-> "NameError", taken |-> FALSE]
    ELSE [err |-> "", taken |-> TRUE]

\* `(vendor, model) = kwargs.get("modelId")`: unpacking iterates the value,
\* which must yield exactly two items
UnpackModelId(m) ==
    IF m.ty # "chars" THEN [err |-> "TypeError", vendor |-> PyNone, model |-> PyNone]
    ELSE IF Len(m.cs) # 2 THEN [err |-> "ValueError", vendor |-> PyNone, model |-> PyNone]
    ELSE [err |-> "", vendor |-> Str(m.cs[1]), model |-> Str(m.cs[2])]

\* the if/elif chain on the vendor
SetVendorAttributes(attrs, vendor, request_body) ==
    CASE vendor = Str("cohere") -> _set_cohere_span_attributes(attrs, request_body)
      [] vendor = Str("anthropic") -> _set_anthropic_span_attributes(attrs, request_body)
      [] vendor = Str("ai21") -> _set_ai21_span_attributes(attrs, request_body)
      [] vendor = Str("meta") -> _set_llama_span_attributes(attrs, request_body)
      [] OTHER -> attrs

\* the loop over enumerate(generations), from index i on
RECURSIVE SetCompletions(_, _, _)
SetCompletions(attrs, generations, i) ==
    IF i >= Len(generations) THEN [err |-> "", attrs |-> attrs]
    ELSE LET generation == generations[i + 1]
         IN IF generation.ty # "dict" THEN [err |-> "AttributeError", attrs |-> attrs]
            ELSE SetCompletions(
                     _set_span_attribute(attrs,
                         LLM_COMPLETIONS \o "." \o ToString(i) \o ".content",
                         Get(generation.d, "text")),
                     generations, i + 1)

\* the body of `if should_send_prompts():`
SetContent(attrs, request_body, response_body) ==
    LET a1 == _set_span_attribute(attrs, LLM_PROMPTS \o ".0.user", Get(request_body, "prompt"))
    IN IF response_body.ty # "dict" THEN [err |-> "AttributeError", attrs |-> a1]
       ELSE LET generations == Get(response_body.d, "generations")
            IN IF generations.ty # "list" THEN [err |-> "TypeError", attrs |-> a1]
               ELSE SetCompletions(a1, generations.items, 0)

\* the body of `if span.is_recording() and modelId:`
AnnotateSpan(attrs, kwargs, request_body, response_body, send) ==
    LET u == UnpackModelId(kwargs.modelId)
        a1 == _set_span_attribute(attrs, LLM_VENDOR, u.vendor)
        a2 == _set_span_attribute(a1, LLM_REQUEST_MODEL, u.model)
        a3 == SetVendorAttributes(a2, u.vendor, request_body)
    IN IF u.err # "" THEN [err |-> u.err, attrs |-> attrs]
       ELSE IF Truthy(send) THEN SetContent(a3, request_body, response_body)
       ELSE [err |-> "", attrs |-> a3]

\* with_instrumentation catching what fn raises and returning instead
with_instrumentation_swallowing(ret, kwargs, span, strm, env, ctx) ==
    [outcome |-> Response, attrs |-> span.attrs, stream |-> strm,
     body |-> [run |-> FALSE, err |-> "", val |-> PyNone]]

\* One run of with_instrumentation's `with` block, from the return of fn to
\* the block's exit.  ret: what fn returned or raised; kwargs: the caller's
\* keyword arguments; span: the span of this call; strm: the chunks left in
\* the response's body stream; env, ctx: as for should_send_prompts.
\* The result: what leaves the block (outcome), the span's attributes and
\* the stream afterwards, and the value _get_body gave (body).
with_instrumentation(ret, kwargs, span, strm, env, ctx) ==
    LET request_body == JsonLoads(kwargs.body)
        got == _get_body(strm, kwargs.accept)
        cond == RecordingAndModelId(span.recording)
        ann == AnnotateSpan(span.attrs, kwargs, request_body.val.d, got.val,
                            should_send_prompts(env, ctx))
        NotRun == [run |-> FALSE, err |-> "", val |-> PyNone]
        Ran == [run |-> TRUE, err |-> got.err, val |-> got.val]
    IN IF ret.kind = "error"
       THEN [outcome |-> ret, attrs |-> span.attrs, stream |-> strm, body |-> NotRun]
       ELSE IF request_body.err # ""
       THEN [outcome |-> Raise(request_body.err), attrs |-> span.attrs,
             stream |-> strm, body |-> NotRun]
       ELSE IF got.err # ""
       THEN [outcome |-> Raise(got.err), attrs |-> span.attrs,
             stream |-> got.stream, body |-> Ran]
       ELSE IF cond.err # ""
       THEN [outcome |-> Raise(cond.err), attrs |-> span.attrs,
             stream |-> got.stream, body |-> Ran]
       ELSE IF ~cond.taken
       THEN [outcome |-> ret, attrs |-> span.attrs, stream |-> got.stream, body |-> Ran]
       ELSE IF ann.err # ""
       THEN [outcome |-> Raise(ann.err), attrs |-> ann.attrs,
             stream |-> got.stream, body |-> Ran]
       ELSE [outcome |-> ret, attrs |-> ann.attrs, stream |-> got.stream, body |-> Ran]

\* ---------------------------------------------------------- the span's life
\* tracer.start_as_current_span("bedrock.completion", kind=SpanKind.CLIENT):
\* the spans of the call with the new one added
start_as_current_span(spans, recording) ==
    Append(spans, [name |-> "bedrock.completion", kind |-> "CLIENT",
                   recording |-> recording, ended |-> FALSE,
                   attrs |-> EmptyDict, exception |-> ""])

\* leaving the `with` block: the exception that leaves it, if any, is recorded
\* on the span, and the span is ended either way
EndSpanOnReturnOnly(span, outcome) ==
    IF outcome.kind = "error" THEN span ELSE [span EXCEPT !.ended = TRUE]

EndSpan(span, outcome) ==
    [span EXCEPT !.ended = TRUE,
                 !.exception = IF outcome.kind = "error" THEN outcome.err ELSE @]

\* ------------------------------------------------------- the client factory
\* ClientCreator.create_client as botocore defines it: a new client of the
\* service named by the arguments, its invoke_model not wrapped (layers = 0).
\* made: how many times the factory ran; received: the arguments it got.
OriginalCreateClient(args) ==
    [client |-> [service |-> IF "service_name" \in DOMAIN args.kw
                             THEN args.kw["service_name"] ELSE args.pos[1],
                 layers |-> 0],
     made |-> 1, received |-> args]

\* _wrap without its look at the suppression key
_wrap_unsuppressed(inner, args, suppressed) ==
    IF Get(args.kw, "service_name") = Str("bedrock-runtime")
    THEN [client |-> [inner.client EXCEPT !.layers = @ + 1], calls |-> 1]
    ELSE [client |-> inner.client, calls |-> 1]

\* One run of _wrap.  inner: what one call wrapped(*args, **kwargs) gives;
\* suppressed: context_api.get_value(_SUPPRESS_INSTRUMENTATION_KEY).
\* calls: how many times this run called wrapped.
_wrap(inner, args, suppressed) ==
    IF suppressed THEN [client |-> inner.client, calls |-> 1]
    ELSE IF Get(args.kw, "service_name") = Str("bedrock-runtime")
    THEN [client |-> [inner.client EXCEPT !.layers = @ + 1], calls |-> 1]
    ELSE [client |-> inner.client, calls |-> 1]

\* the function bound to ClientCreator.create_client under n wrapper layers
RECURSIVE create_client(_, _, _)
create_client(n, args, suppressed) ==
    IF n = 0 THEN OriginalCreateClient(args)
    ELSE LET inner == create_client(n - 1, args, suppressed)
             w == _wrap(inner, args, suppressed)
         IN [client |-> w.client, made |-> inner.made * w.calls,
             received |-> inner.received]

\* BedrockInstrumentor._instrument: wrap_function_wrapper puts one more
\* wrapper around whatever ClientCreator.create_client is bound to
_instrument(w) == w + 1

\* unwrap finding nothing to take off
_uninstrument_noop(w) == w

\* BedrockInstrumentor._uninstrument: unwrap takes the outermost wrapper off,
\* and leaves a function that is not wrapped as it is
_uninstrument(w) == IF w > 0 THEN w - 1 ELSE w

\* -------------------------------------------------------------------- state
VARIABLES
    wrappers,      \* wrapper layers around ClientCreator.create_client
    suppress,      \* the context value _SUPPRESS_INSTRUMENTATION_KEY
    traceContent,  \* the environment variable TRACELOOP_TRACE_CONTENT
    override,      \* the context value override_enable_content_tracing
    clients,       \* the clients built so far
    created,       \* what the create_client call that has just returned did
    hist,          \* the last of _instrument/_uninstrument, and the layers before it
    pc,            \* the caller: "idle", "calling", "returned", "read"
    call,          \* the invoke_model call in progress
    todo,          \* tracing layers of the client not yet entered
    stack,         \* the with_instrumentation frames entered and not left
    ret,           \* the result on its way from a callee to its caller
    orig,          \* what botocore's invoke_model did in this call
    stream,        \* the chunks the response's body stream still holds
    spans,         \* the spans of this call
    nCalls,        \* invoke_model calls made by the caller
    nInvoked,      \* runs of with_instrumentation begun
    nStarted,      \* spans started
    nEnded,        \* spans ended
    result,        \* what the caller got from the call
    callerGot      \* what the caller read from the returned body

vars == <<wrappers, suppress, traceContent, override, clients, created, hist, pc, call,
          todo, stack, ret, orig, stream, spans, nCalls, nInvoked, nStarted,
          nEnded, result, callerGot>>

envVars == <<suppress, traceContent, override>>
factoryVars == <<wrappers, clients, created, hist>>
callVars == <<pc, call, todo, stack, ret, orig, stream, spans, result, callerGot>>
countVars == <<nCalls, nInvoked, nStarted, nEnded>>

\* ------------------------------------------------------------------- inputs
Args(pos, kw) == [pos |-> pos, kw |-> kw]
KwService == Args(<<>>, Put(EmptyDict, "service_name", Str("bedrock-runtime")))
PosService == Args(<<Str("bedrock-runtime")>>, EmptyDict)
KwOther == Args(<<>>, Put(EmptyDict, "service_name", Str("s3")))
FactoryArgs == {KwService, PosService, KwOther}

Kwargs(modelId, body, accept) == [modelId |-> modelId, body |-> body, accept |-> accept]
NoKwargs == Kwargs(PyNone, PyNone, PyNone)
NoCall == [client |-> 0, kwargs |-> NoKwargs, suppressed |-> FALSE]
NoOrig == [outcome |-> NoRet, chunks |-> <<>>]
NoCreated == [n |-> 0, made |-> 0, received |-> Args(<<>>, EmptyDict),
              args |-> Args(<<>>, EmptyDict), wrappers |-> 0, suppressed |-> FALSE,
              after |-> "none"]

Prompt == Mem("prompt", Str("hi"))
CohereBody == Text(<<LB, Prompt, Mem("p", Num(0)), Mem("temperature", Num(1)),
                     Mem("max_tokens", Num(20)), RB>>)
AnthropicBody == Text(<<LB, Prompt, Mem("top_p", Num(1)), Mem("temperature", PyNone),
                        Mem("max_tokens_to_sample", Num(5)), RB>>)
Ai21Body == Text(<<LB, Prompt, Mem("topP", Bool(FALSE)), Mem("temperature", Str("")),
                   Mem("maxTokens", Num(8)), RB>>)
MetaBody == Text(<<LB, Prompt, Mem("top_p", Num(1)), Mem("max_gen_len", Num(0)), RB>>)
TitanBody == Text(<<LB, Mem("inputText", Str("hi")), Mem("temperature", Num(1)), RB>>)
TruncatedBody == Text(<<LB, Prompt>>)

CohereId == Chars(<<"c","o","h","e","r","e",".","c","o","m","m","a","n","d">>)
AnthropicId == Chars(<<"a","n","t","h","r","o","p","i","c",".","c","l","a","u","d","e">>)
Ai21Id == Chars(<<"a","i","2","1",".","j","2">>)
MetaId == Chars(<<"m","e","t","a",".","l","l","a","m","a","2">>)
TitanId == Chars(<<"a","m","a","z","o","n",".","t","i","t","a","n">>)

\* the (modelId, body) pairs callers pass
Requests ==
    {<<CohereId, CohereBody>>, <<AnthropicId, AnthropicBody>>, <<Ai21Id, Ai21Body>>,
     <<MetaId, MetaBody>>, <<TitanId, TitanBody>>, <<CohereId, TruncatedBody>>,
     <<CohereId, PyNone>>, <<PyNone, CohereBody>>}
Accepts == {Str("application/json"), Str("application/xml"), PyNone}
AllKwargs == {Kwargs(r[1], r[2], a) : r \in Requests, a \in Accepts}
FewKwargs == {Kwargs(CohereId, CohereBody, Str("application/json"))}

Generation(t) == Dict(Put(EmptyDict, "text", Str(t)))
Generations == Mem("generations", List(<<Generation("a"), Generation("b")>>))
\* the chunk sequences a response body stream yields
Streams ==
    {<< <<LB, Generations, RB>> >>,
     << <<LB, Generations>>, <<RB>> >>,
     << <<LB>>, <<Generations>>, <<RB>> >>,
     << <<LB, Mem("completion", Str("a")), RB>> >>,
     << <<LB, Generations>> >>,
     << >>}
FewStreams == {<< <<LB, Generations>>, <<RB>> >>}
WrappedErrors == {"ClientError", "ReadTimeoutError"}
AllOrigs == {[outcome |-> Response, chunks |-> c] : c \in Streams}
            \cup {[outcome |-> Raised(e, "wrapped"), chunks |-> <<>>] : e \in WrappedErrors}
FewOrigs == {[outcome |-> Response, chunks |-> c] : c \in FewStreams}
            \cup {[outcome |-> Raised("ClientError", "wrapped"), chunks |-> <<>>]}

TraceContents == {PyNone, Str(""), Str("true"), Str("TRUE"), Str("false")}
Overrides == {PyNone, Bool(TRUE), Bool(FALSE)}

Frame(span) == [span |-> span, pc |-> "fn", outcome |-> NoRet,
                body |-> [run |-> FALSE, err |-> "", val |-> PyNone]]
Top == stack[Len(stack)]
Pop(sq) == SubSeq(sq, 1, Len(sq) - 1)

\* chunks joined in order
RECURSIVE Flatten(_)
Flatten(chunks) == IF chunks = <<>> THEN <<>> ELSE Head(chunks) \o Flatten(Tail(chunks))

\* --------------------------------------------------------------------- Init
Fresh ==
    /\ suppress = FALSE
    /\ traceContent = PyNone
    /\ override = PyNone
    /\ created = NoCreated
    /\ pc = "idle"
    /\ call = NoCall
    /\ todo = 0
    /\ stack = <<>>
    /\ ret = NoRet
    /\ orig = NoOrig
    /\ stream = <<>>
    /\ spans = <<>>
    /\ nCalls = 0
    /\ nInvoked = 0
    /\ nStarted = 0
    /\ nEnded = 0
    /\ result = NoRet
    /\ callerGot = <<>>

\* the process as it starts: nothing instrumented, no client built
Init ==
    /\ wrappers = 0
    /\ hist = [op |-> "none", before |-> 0]
    /\ clients = <<>>
    /\ Fresh

\* _instrument applied n times to the factory botocore defines
RECURSIVE Instrumented(_)
Instrumented(n) == IF n = 0 THEN 0 ELSE _instrument(Instrumented(n - 1))

\* after BedrockInstrumentor._instrument (once, or more often) and one
\* create_client(service_name="bedrock-runtime")
InitTraced ==
    /\ \E n \in 1..MaxWrappers :
         /\ wrappers = Instrumented(n)
         /\ hist = [op |-> "instrument", before |-> Instrumented(n - 1)]
         /\ clients = <<create_client(Instrumented(n), KwService, FALSE).client>>
    /\ Fresh

\* ------------------------------------------------------------------ actions
Instrument ==
    /\ pc = "idle"
    /\ wrappers < MaxWrappers
    /\ wrappers' = _instrument(wrappers)
    /\ hist' = [op |-> "instrument", before |-> wrappers]
    /\ created' = NoCreated
    /\ UNCHANGED <<clients, envVars, callVars, countVars>>

Uninstrument ==
    /\ pc = "idle"
    /\ wrappers' = _uninstrument(wrappers)
    /\ hist' = IF hist.op = "instrument"
               THEN [op |-> "undone", before |-> hist.before]
               ELSE [op |-> "uninstrument", before |-> 0]
    /\ created' = NoCreated
    /\ UNCHANGED <<clients, envVars, callVars, countVars>>

SetSuppress ==
    /\ pc = "idle"
    /\ suppress' = ~suppress
    /\ created' = NoCreated
    /\ UNCHANGED <<traceContent, override, wrappers, clients, hist, callVars, countVars>>

SetTraceContent ==
    /\ pc = "idle"
    /\ \E v \in TraceContents : traceContent' = v
    /\ UNCHANGED <<suppress, override, factoryVars, callVars, countVars>>

SetOverride ==
    /\ pc = "idle"
    /\ \E v \in Overrides : override' = v
    /\ UNCHANGED <<suppress, traceContent, factoryVars, callVars, countVars>>

\* a caller calls ClientCreator.create_client
CreateClient ==
    /\ pc = "idle"
    /\ Len(clients) < MaxClients
    /\ \E args \in FactoryArgs :
         LET r == create_client(wrappers, args, suppress)
         IN /\ clients' = Append(clients, r.client)
            /\ created' = [n |-> Len(clients) + 1, made |-> r.made,
                           received |-> r.received, args |-> args,
                           wrappers |-> wrappers, suppressed |-> suppress,
                           after |-> hist.op]
    /\ UNCHANGED <<wrappers, hist, envVars, callVars, countVars>>

\* a caller calls client.invoke_model(**kwargs)
Invoke(kwargsSet) ==
    /\ pc = "idle"
    /\ nCalls < MaxCalls
    /\ \E c \in 1..Len(clients), kw \in kwargsSet :
         /\ call' = [client |-> c, kwargs |-> kw, suppressed |-> suppress]
         /\ todo' = clients[c].layers
    /\ pc' = "calling"
    /\ nCalls' = nCalls + 1
    /\ created' = NoCreated
    /\ UNCHANGED <<envVars, wrappers, clients, hist, stack, ret, orig, stream, spans, result,
                   callerGot, nInvoked, nStarted, nEnded>>

\* with_instrumentation is entered and opens its span
Enter ==
    /\ pc = "calling"
    /\ todo > 0
    /\ \E recording \in BOOLEAN :
         spans' = start_as_current_span(spans, recording)
    /\ stack' = Append(stack, Frame(Len(spans) + 1))
    /\ todo' = todo - 1
    /\ nInvoked' = nInvoked + 1
    /\ nStarted' = nStarted + (Len(spans') - Len(spans))
    /\ UNCHANGED <<envVars, factoryVars, pc, call, ret, orig, stream, result,
                   callerGot, nCalls, nEnded>>

\* botocore's own invoke_model runs: it returns a response or raises
Original(origSet) ==
    /\ pc = "calling"
    /\ todo = 0
    /\ orig = NoOrig
    /\ \E o \in origSet :
         /\ orig' = o
         /\ ret' = o.outcome
         /\ stream' = o.chunks
    /\ UNCHANGED <<envVars, factoryVars, pc, call, todo, stack, spans, result,
                   callerGot, countVars>>

\* fn has returned or raised into the innermost frame still waiting for it:
\* the rest of the `with` block runs
Annotate ==
    /\ pc = "calling"
    /\ stack # <<>>
    /\ Top.pc = "fn"
    /\ ret # NoRet
    /\ LET r == with_instrumentation(ret, call.kwargs, spans[Top.span], stream,
                                     traceContent, override)
       IN /\ stack' = [stack EXCEPT ![Len(stack)] =
                          [@ EXCEPT !.pc = "exit", !.outcome = r.outcome, !.body = r.body]]
          /\ spans' = [spans EXCEPT ![Top.span].attrs = r.attrs]
          /\ stream' = r.stream
    /\ ret' = NoRet
    /\ UNCHANGED <<envVars, factoryVars, pc, call, todo, orig, result, callerGot,
                   countVars>>

\* the `with` block is left: the span ends
Exit ==
    /\ pc = "calling"
    /\ stack # <<>>
    /\ Top.pc = "exit"
    /\ spans' = [spans EXCEPT ![Top.span] = EndSpan(@, Top.outcome)]
    /\ stack' = [stack EXCEPT ![Len(stack)].pc = "return"]
    /\ nEnded' = nEnded + Cardinality({i \in DOMAIN spans : spans'[i].ended /\ ~spans[i].ended})
    /\ UNCHANGED <<envVars, factoryVars, pc, call, todo, ret, orig, stream, result,
                   callerGot, nCalls, nInvoked, nStarted>>

\* with_instrumentation returns or raises to whoever called it
Return ==
    /\ pc = "calling"
    /\ stack # <<>>
    /\ Top.pc = "return"
    /\ ret' = Top.outcome
    /\ stack' = Pop(stack)
    /\ UNCHANGED <<envVars, factoryVars, pc, call, todo, orig, stream, spans, result,
                   callerGot, countVars>>

\* the caller of client.invoke_model has its result
Finish ==
    /\ pc = "calling"
    /\ stack = <<>>
    /\ todo = 0
    /\ ret # NoRet
    /\ result' = ret
    /\ ret' = NoRet
    /\ pc' = "returned"
    /\ UNCHANGED <<envVars, factoryVars, call, todo, stack, orig, stream, spans,
                   callerGot, countVars>>

\* the caller reads the body of the response it was given
CallerRead ==
    /\ pc = "returned"
    /\ result.kind = "response"
    /\ callerGot' = Flatten(stream)
    /\ stream' = <<>>
    /\ pc' = "read"
    /\ UNCHANGED <<envVars, factoryVars, call, todo, stack, ret, orig, spans, result,
                   countVars>>

\* the caller is done with the call and drops what it got
Done ==
    /\ pc \in {"returned", "read"}
    /\ pc' = "idle"
    /\ call' = NoCall
    /\ orig' = NoOrig
    /\ stream' = <<>>
    /\ spans' = <<>>
    /\ result' = NoRet
    /\ callerGot' = <<>>
    /\ UNCHANGED <<envVars, factoryVars, todo, stack, ret, countVars>>

\* ----------------------------------------------------------- specifications
\* the factory's life: instrumenting, building clients, calling them
Next ==
    \/ Instrument
    \/ Uninstrument
    \/ SetSuppress
    \/ CreateClient
    \/ Invoke(FewKwargs)
    \/ Enter
    \/ Original(FewOrigs)
    \/ Annotate
    \/ Exit
    \/ Return
    \/ Finish
    \/ CallerRead
    \/ Done

Spec == Init /\ [][Next]_vars

\* the calls of one traced client, over the requests and responses it meets
NextCalls ==
    \/ SetTraceContent
    \/ SetOverride
    \/ Invoke(AllKwargs)
    \/ Enter
    \/ Original(AllOrigs)
    \/ Annotate
    \/ Exit
    \/ Return
    \/ Finish
    \/ CallerRead
    \/ Done

SpecCalls == InitTraced /\ [][NextCalls]_vars

\* ------------------------------------------------------------------ claims
Layers == IF call.client = 0 THEN 0 ELSE clients[call.client].layers
Returned == pc \in {"returned", "read"}
OnStack(i) == \E k \in DOMAIN stack : stack[k].span = i

\* C1: every run of the instrumented invoke_model opens exactly one span,
\* named bedrock.completion, and the span has ended before the run returns
\* or raises: spans started = runs begun, the frames on the stack own one
\* span each, a frame about to return has an ended span, a span whose frame
\* is gone is ended, and once the caller has its result every span of the
\* call is ended (one span, for a client wrapped once).
C1_OneSpanPerCall ==
    /\ nStarted = nInvoked
    /\ Len(spans) = Layers - todo
    /\ \A i \in DOMAIN spans : spans[i].name = "bedrock.completion"
    /\ \A k \in DOMAIN stack : stack[k].span = k
    /\ \A k \in DOMAIN stack : stack[k].pc = "return" => spans[stack[k].span].ended
    /\ \A i \in DOMAIN spans : ~OnStack(i) => spans[i].ended
    /\ Returned => /\ nEnded = nStarted
                   /\ Len(spans) = Layers
                   /\ \A i \in DOMAIN spans : spans[i].ended

\* a second call has raised to the caller, after a span of its own that ended
C1_Witness ==
    /\ pc = "returned"
    /\ nCalls = 2
    /\ result.kind = "error"
    /\ Layers = 1
    /\ Len(spans) = 1
    /\ spans[1].ended
    /\ nStarted = 2

\* C2: when the wrapped invoke_model raises, every instrumented layer raises
\* that same error, the caller gets it, and no attribute is set on any span
\* of the call.
C2_ErrorsPassThrough ==
    orig.outcome.kind = "error" =>
        /\ \A k \in DOMAIN stack : stack[k].pc # "fn" => stack[k].outcome = orig.outcome
        /\ \A i \in DOMAIN spans : spans[i].attrs = EmptyDict
        /\ Returned => result = orig.outcome

\* the wrapped call raised, a traced client's call passed the error on
C2_Witness ==
    /\ pc = "returned"
    /\ Layers >= 1
    /\ Len(spans) = Layers
    /\ orig.outcome = Raised("ReadTimeoutError", "wrapped")
    /\ result = orig.outcome
    /\ spans[1].exception = "ReadTimeoutError"

\* C9: _get_body, run on a stream of one or more chunks, gives the JSON
\* decoding of the chunks joined in the order the stream yields them when
\* accept is application/json, and None for any other accept; either way the
\* stream has been read to its end.  (The innermost frame is the one that
\* reads the stream as botocore returned it.)
C9_GetBodyReassembles ==
    \A k \in DOMAIN stack :
        (stack[k].body.run /\ k = Layers /\ Len(orig.chunks) >= 1) =>
            /\ stream = <<>>
            /\ IF call.kwargs.accept = Str("application/json")
               THEN /\ stack[k].body.err = JsonLoads(Text(Flatten(orig.chunks))).err
                    /\ stack[k].body.val = JsonLoads(Text(Flatten(orig.chunks))).val
               ELSE /\ stack[k].body.err = ""
                    /\ stack[k].body.val = PyNone

\* a stream of three chunks was decoded to the object they spell together
C9_Witness ==
    /\ stack # <<>>
    /\ Top.body.run
    /\ Len(stack) = Layers
    /\ Len(orig.chunks) = 3
    /\ call.kwargs.accept = Str("application/json")
    /\ Top.body.err = ""
    /\ Top.body.val.ty = "dict"
    /\ "generations" \in DOMAIN Top.body.val.d

\* no step changes a client that exists: its invoke_model stays as built
ClientsKept == \A i \in DOMAIN clients : i \in DOMAIN clients' /\ clients'[i] = clients[i]

C7_AtCreation ==
    created.n > 0 =>
        /\ created.made = 1
        /\ created.received = created.args
        /\ created.wrappers >= 1 =>
               (clients[created.n].layers >= 1 <=>
                    (/\ ~created.suppressed
                     /\ Get(created.args.kw, "service_name") = Str("bedrock-runtime")))

C7_AtCall ==
    /\ Layers = 0 => spans = <<>>
    /\ Returned /\ Layers >= 1 => Len(spans) >= 1

\* C7: tracing is decided when create_client is called and never revisited:
\* the wrapper runs the wrapped factory once, with the caller's arguments,
\* and the client's invoke_model is replaced exactly when the suppression
\* key is not set and service_name is passed by keyword as bedrock-runtime;
\* no later step changes a client; a traced client opens a span on every
\* call, whatever the suppression key is then, and an untraced one never.
C7_DecidedAtCreation == [](C7_AtCreation /\ C7_AtCall) /\ [][ClientsKept]_vars

\* a traced client was called with the suppression key set, and opened a span
C7_Witness ==
    /\ pc = "returned"
    /\ call.suppressed
    /\ Layers >= 1
    /\ Len(spans) >= 1
    /\ spans[1].ended

C10_State(undone, perCall) ==
    /\ hist.op = "undone" => wrappers = undone
    /\ created.n > 0 /\ created.wrappers = 0 => clients[created.n].layers = 0
    /\ Returned => Len(spans) = perCall

RECURSIVE DotAt(_, _)
DotAt(cs, i) == IF i > Len(cs) THEN 0 ELSE IF cs[i] = "." THEN i ELSE DotAt(cs, i + 1)
RECURSIVE Join(_)
Join(cs) == IF cs = <<>> THEN "" ELSE cs[1] \o Join(Tail(cs))
HasForm(m) == m.ty = "chars" /\ DotAt(m.cs, 1) > 1 /\ DotAt(m.cs, 1) < Len(m.cs)
VendorOf(m) == Join(SubSeq(m.cs, 1, DotAt(m.cs, 1) - 1))
ModelOf(m) == Join(SubSeq(m.cs, DotAt(m.cs, 1) + 1, Len(m.cs)))
SupportedVendors == {"cohere", "anthropic", "ai21", "meta"}
RequestKey(vendor, attr) ==
    CASE attr = LLM_TEMPERATURE -> "temperature"
      [] attr = LLM_TOP_P ->
            (CASE vendor = "cohere" -> "p" [] vendor = "ai21" -> "topP" [] OTHER -> "top_p")
      [] attr = LLM_REQUEST_MAX_TOKENS ->
            (CASE vendor = "cohere" -> "max_tokens"
               [] vendor = "anthropic" -> "max_tokens_to_sample"
               [] vendor = "ai21" -> "maxTokens"
               [] OTHER -> "max_gen_len")
RequestAttrs == {LLM_TOP_P, LLM_TEMPERATURE, LLM_REQUEST_MAX_TOKENS}
ContentAttrs == {LLM_PROMPTS \o ".0.user"}
                \cup {LLM_COMPLETIONS \o "." \o ToString(i) \o ".content" : i \in 0..3}

\* a call of a client wrapped once has returned or raised to the caller; the
\* wrapped call had succeeded, the span was recording, the request was a
\* JSON object and modelId was '<vendor>.<model>'
GoodCall ==
    /\ Returned
    /\ Layers = 1
    /\ orig.outcome.kind = "response"
    /\ spans[1].recording
    /\ HasForm(call.kwargs.modelId)
    /\ JsonLoads(call.kwargs.body).err = ""
SendPrompts == Truthy(should_send_prompts(traceContent, override))

\* C3: a call whose wrapped call succeeds, whose span is recording and whose
\* modelId is '<vendor>.<model>' returns the response, and its span carries
\* the vendor and the request model.
C3_VendorAndModelTagged ==
    GoodCall =>
        /\ result = Response
        /\ Get(spans[1].attrs, LLM_VENDOR) = Str(VendorOf(call.kwargs.modelId))
        /\ Get(spans[1].attrs, LLM_REQUEST_MODEL) = Str(ModelOf(call.kwargs.modelId))

\* C4: for cohere, anthropic, ai21 and meta the span's request type is
\* "completion" and top-p, temperature and max-tokens are set from the
\* vendor's own request keys, each exactly when the request holds a value
\* for its key that is neither None nor ""; for another vendor none of the
\* four is set.
C4_VendorRequestAttributes ==
    GoodCall =>
        LET v == VendorOf(call.kwargs.modelId)
            rb == JsonLoads(call.kwargs.body).val.d
            a == spans[1].attrs
        IN IF v \in SupportedVendors
           THEN /\ Get(a, LLM_REQUEST_TYPE) = COMPLETION
                /\ \A attr \in RequestAttrs :
                     LET val == Get(rb, RequestKey(v, attr))
                     IN IF val # PyNone /\ val # Str("")
                        THEN Get(a, attr) = val
                        ELSE attr \notin DOMAIN a
           ELSE DOMAIN a \cap (RequestAttrs \cup {LLM_REQUEST_TYPE}) = {}

\* C5: with content tracing enabled, a successful call for a supported
\* vendor, whatever the accept type, tags its span with the prompt and with
\* the text of every generation of the response, under its index, in order.
C5_PromptAndCompletionsTagged ==
    (/\ GoodCall
     /\ SendPrompts
     /\ VendorOf(call.kwargs.modelId) \in SupportedVendors
     /\ JsonLoads(Text(Flatten(orig.chunks))).err = ""
     /\ "generations" \in DOMAIN JsonLoads(Text(Flatten(orig.chunks))).val.d) =>
        LET rb == JsonLoads(call.kwargs.body).val.d
            gens == JsonLoads(Text(Flatten(orig.chunks))).val.d["generations"].items
            a == spans[1].attrs
        IN /\ Get(a, LLM_PROMPTS \o ".0.user") = Get(rb, "prompt")
           /\ \A i \in 0..(Len(gens) - 1) :
                Get(a, LLM_COMPLETIONS \o "." \o ToString(i) \o ".content")
                    = Get(gens[i + 1].d, "text")

\* C6: should_send_prompts is true exactly when TRACELOOP_TRACE_CONTENT is
\* unset or empty or "true" in any case, or the override context value is
\* truthy; a call made while it is false puts no prompt and no completion on
\* its span, and still puts the vendor, the model and the request
\* parameters there.
C6_ContentOnlyWhenEnabled ==
    /\ SendPrompts <=> (\/ traceContent = PyNone
                        \/ traceContent = Str("")
                        \/ Lower(traceContent.s) = "true"
                        \/ Truthy(override))
    /\ (Returned /\ ~SendPrompts) =>
           \A i \in DOMAIN spans : DOMAIN spans[i].attrs \cap ContentAttrs = {}
    /\ (GoodCall /\ ~SendPrompts) =>
           /\ Get(spans[1].attrs, LLM_VENDOR) = Str(VendorOf(call.kwargs.modelId))
           /\ Get(spans[1].attrs, LLM_REQUEST_MODEL) = Str(ModelOf(call.kwargs.modelId))
           /\ VendorOf(call.kwargs.modelId) \in SupportedVendors =>
                  Get(spans[1].attrs, LLM_REQUEST_TYPE) = COMPLETION

\* C8: the caller of a traced invoke_model that reads the body of the
\* response it was handed gets the whole payload botocore produced.
C8_BodyStillReadable ==
    (pc = "read" /\ Layers >= 1) => callerGot = Flatten(orig.chunks)

====
